---- MODULE Spec2Model ----
(***************************************************************************)
(* Model of src/state/dao_app_state.rs: decoding of the global and local   *)
(* application state of a DAO app into CentralAppGlobalState /             *)
(* CentralAppInvestorState, and the local-state schema matcher.            *)
(*                                                                         *)
(* A state is one call: the snapshot the call is given (gs + creator, or   *)
(* app_local_state), the function that ran (pc) and what it returned       *)
(* (result).  Byte strings are sequences of byte values, a String is the   *)
(* byte sequence it was built from, Option and Result are records.         *)
(***************************************************************************)
EXTENDS Integers, Sequences, FiniteSets, TLC

VARIABLES gs, creator, app_local_state, rec, pc, result

vars == <<gs, creator, app_local_state, rec, pc, result>>

(***************************************************************************)
(* Option / Result                                                         *)
(***************************************************************************)
None == [some |-> FALSE]
Some(v) == [some |-> TRUE, value |-> v]

Ok(v) == [ok |-> TRUE, value |-> v]
Err(kind, what) == [ok |-> FALSE, kind |-> kind, what |-> what]

(***************************************************************************)
(* Keys (AppStateKey constants)                                            *)
(***************************************************************************)
GLOBAL_TOTAL_RECEIVED == "CentralReceivedTotal"
GLOBAL_WITHDRAWABLE_AMOUNT == "AvailableAmount"
GLOBAL_FUNDS_ASSET_ID == "FundsAssetId"
GLOBAL_SHARES_ASSET_ID == "SharesAssetId"
GLOBAL_DAO_NAME == "DaoName"
GLOBAL_DAO_DESC == "DaoDesc"
GLOBAL_SHARE_PRICE == "SharePrice"
GLOBAL_INVESTORS_SHARE == "InvestorsPart"
GLOBAL_IMAGE_URL == "ImageUrl"
GLOBAL_IMAGE_ASSET_ID == "ImageAsset"
GLOBAL_SOCIAL_MEDIA_URL == "SocialMediaUrl"
GLOBAL_PROSPECTUS_URL == "ProspectusUrl"
GLOBAL_PROSPECTUS_HASH == "ProspectusHash"
GLOBAL_SHARES_LOCKED == "LockedShares"
GLOBAL_VERSIONS == "Versions"
GLOBAL_TARGET == "Target"
GLOBAL_TARGET_END_DATE == "TargetEndDate"
GLOBAL_RAISED == "Raised"
GLOBAL_MIN_INVEST_AMOUNT == "GlobalMinInvestAmount"
GLOBAL_MAX_INVEST_AMOUNT == "GlobalMaxInvestAmount"
GLOBAL_TEAM_URL == "TeamUrl"
GLOBAL_SETUP_DATE == "SetupDate"

LOCAL_CLAIMED_TOTAL == "ClaimedTotal"
LOCAL_CLAIMED_INIT == "ClaimedInit"
LOCAL_SHARES == "Shares"
LOCAL_SIGNED_PROSPECTUS_URL == "SignedProspectusUrl"
LOCAL_SIGNED_PROSPECTUS_HASH == "SignedProspectusHash"
LOCAL_SIGNED_PROSPECTUS_TIMESTAMP == "SignedProspectusTimestamp"

GLOBAL_SCHEMA_NUM_BYTE_SLICES == 8
GLOBAL_SCHEMA_NUM_INTS == 14
LOCAL_SCHEMA_NUM_BYTE_SLICES == 3
LOCAL_SCHEMA_NUM_INTS == 3

(***************************************************************************)
(* TealValue / TealKeyValue.  A snapshot (Vec<TealKeyValue>) is a function *)
(* from the keys it holds to their TealValue: keys are unique within a     *)
(* snapshot, so the order of the entries decides nothing below.  A key is  *)
(* written as the text it encodes; NOT_BASE64 and NOT_UTF8 are the keys    *)
(* that do not decode to text.                                             *)
(***************************************************************************)
TealBytes(b) == [value_type |-> 1, bytes |-> b, uint |-> 0]
TealUint(n) == [value_type |-> 2, bytes |-> <<>>, uint |-> n]
TealUnknown == [value_type |-> 3, bytes |-> <<>>, uint |-> 0]

NOT_BASE64 == "key that is not base64"
NOT_UTF8 == "key whose bytes are not utf8"

\* AppStateKey::to_teal_encoded_str: the form under which a key is stored.
to_teal_encoded_str(key) == key

\* ApplicationStateExt::len
len(state) == Cardinality(DOMAIN state)

\* ApplicationStateExt::find
find(state, key) ==
    IF to_teal_encoded_str(key) \in DOMAIN state
    THEN Some(state[to_teal_encoded_str(key)])
    ELSE None

\* ApplicationStateExt::find_uint
find_uint(state, key) ==
    IF find(state, key).some THEN Some(find(state, key).value.uint) ELSE None

\* ApplicationStateExt::find_bytes
find_bytes(state, key) ==
    IF find(state, key).some THEN Some(find(state, key).value.bytes) ELSE None

(***************************************************************************)
(* Conversions                                                             *)
(***************************************************************************)
\* String::from_utf8.  The byte values used below are ASCII or 255; a byte
\* of 128 or more that is not part of a multi-byte sequence is rejected.
String_from_utf8(bytes) ==
    IF \A i \in DOMAIN bytes : bytes[i] < 128
    THEN Ok(bytes)
    ELSE Err("EncodingError", "utf8")

RECURSIVE from_be_bytes(_)
from_be_bytes(bytes) ==
    IF bytes = <<>> THEN 0
    ELSE 256 * from_be_bytes(SubSeq(bytes, 1, Len(bytes) - 1)) + bytes[Len(bytes)]

\* Vec<u8> -> [u8; 8] -> u64::from_be_bytes
TimestampWidthLoose(timestamp) ==
    IF Len(timestamp) < 8
    THEN Err("EncodingError", "timestamp")
    ELSE Ok(from_be_bytes(SubSeq(timestamp, 1, 8)))

timestamp_from_bytes(timestamp) ==
    IF Len(timestamp) # 8
    THEN Err("EncodingError", "timestamp")
    ELSE Ok(from_be_bytes(timestamp))

\* u64 -> SharesPercentage
SHARES_PERCENTAGE_MAX == 100

shares_percentage_try_from(n) ==
    IF n <= SHARES_PERCENTAGE_MAX THEN Ok(n) ELSE Err("EncodingError", "percentage")

\* api::version::bytes_to_versions: two u32 versions, concatenated
bytes_to_versions(bytes) ==
    IF Len(bytes) # 8
    THEN Err("EncodingError", "versions")
    ELSE Ok([app_approval |-> from_be_bytes(SubSeq(bytes, 1, 4)),
             app_clear |-> from_be_bytes(SubSeq(bytes, 5, 8))])

(***************************************************************************)
(* Helpers of the decoders                                                 *)
(***************************************************************************)
read_bytes_none_if_empty(state, key) ==
    IF find_bytes(state, key).some
    THEN IF find_bytes(state, key).value = <<>>
         THEN None
         ELSE Some(find_bytes(state, key).value)
    ELSE None

\* Result<Option<String>>
read_string_none_if_empty(state, key) ==
    IF read_bytes_none_if_empty(state, key).some
    THEN IF String_from_utf8(read_bytes_none_if_empty(state, key).value).ok
         THEN Ok(Some(String_from_utf8(read_bytes_none_if_empty(state, key).value).value))
         ELSE String_from_utf8(read_bytes_none_if_empty(state, key).value)
    ELSE Ok(None)

value_to_str(value) ==
    CASE value.value_type = 1 ->
            Ok(IF Len(value.bytes) = 32
               THEN [form |-> "address", bytes |-> value.bytes]
               ELSE [form |-> "hex", bytes |-> value.bytes])
      [] value.value_type = 2 -> Ok([form |-> "decimal", uint |-> value.uint])
      [] OTHER -> Err("DiagnosticError", "Unexpected global value type")

\* Ok(()) when every entry formats, the formatter's error otherwise.
print_state(values) ==
    IF \E k \in DOMAIN values : k = NOT_BASE64
    THEN Err("DiagnosticError", "base64")
    ELSE IF \E k \in DOMAIN values : k = NOT_UTF8
    THEN Err("DiagnosticError", "utf8")
    ELSE IF \E k \in DOMAIN values : ~value_to_str(values[k]).ok
    THEN Err("DiagnosticError", "Unexpected global value type")
    ELSE Ok("unit")

GetIntOrDefault(key, state) ==
    IF find_uint(state, key).some
    THEN Ok(find_uint(state, key).value)
    ELSE Ok(0)

get_int_or_err(key, state) ==
    IF find_uint(state, key).some
    THEN Ok(find_uint(state, key).value)
    ELSE Err("FieldMissing", key)

get_bytes_or_err(key, state) ==
    IF find_bytes(state, key).some
    THEN Ok(find_bytes(state, key).value)
    ELSE Err("FieldMissing", key)

\* app_state::get_uint_value_or_error
get_uint_value_or_error(state, key) ==
    IF find_uint(state, key).some
    THEN Ok(find_uint(state, key).value)
    ELSE Err("FieldMissing", key)

\* String::from_utf8(get_bytes_or_err(key, gs)?)?
get_string_or_err(key, state) ==
    IF get_bytes_or_err(key, state).ok
    THEN String_from_utf8(get_bytes_or_err(key, state).value)
    ELSE get_bytes_or_err(key, state)

\* The `?` operator over a sequence of steps: the first failed step, in the
\* order the function evaluates them.
FirstErr(steps) ==
    steps[CHOOSE i \in DOMAIN steps :
            /\ ~steps[i].ok
            /\ \A j \in DOMAIN steps : ~steps[j].ok => i <= j]

AllOk(steps) == \A i \in DOMAIN steps : steps[i].ok

(***************************************************************************)
(* dao_global_state                                                        *)
(***************************************************************************)
\* match (image_asset_id, image_url): Result<Option<Nft>>
image_nft_of(image_asset_id, image_url) ==
    IF image_asset_id.some /\ image_url.some
    THEN IF image_asset_id.value = 0 /\ image_url.value = <<>>
         THEN Ok(None)
         ELSE IF String_from_utf8(image_url.value).ok
         THEN Ok(Some([asset_id |-> image_asset_id.value,
                       url |-> String_from_utf8(image_url.value).value]))
         ELSE String_from_utf8(image_url.value)
    ELSE IF ~image_asset_id.some /\ ~image_url.some
    THEN Ok(None)
    ELSE Err("InconsistentPairing", "image")

\* match (prospectus_url, prospectus_hash): Result<Option<Prospectus>>
ProspectusSwapped(prospectus_url, prospectus_hash) ==
    IF prospectus_url.some /\ prospectus_hash.some
    THEN Ok(Some([hash |-> prospectus_url.value, url |-> prospectus_hash.value]))
    ELSE IF ~prospectus_url.some /\ ~prospectus_hash.some
    THEN Ok(None)
    ELSE Err("InconsistentPairing", "prospectus")

ProspectusLenient(prospectus_url, prospectus_hash) ==
    IF prospectus_url.some /\ prospectus_hash.some
    THEN Ok(Some([hash |-> prospectus_hash.value, url |-> prospectus_url.value]))
    ELSE Ok(None)

prospectus_of(prospectus_url, prospectus_hash) ==
    IF prospectus_url.some /\ prospectus_hash.some
    THEN Ok(Some([hash |-> prospectus_hash.value, url |-> prospectus_url.value]))
    ELSE IF ~prospectus_url.some /\ ~prospectus_hash.some
    THEN Ok(None)
    ELSE Err("InconsistentPairing", "prospectus")

\* `?` on a Result<Option<String>> feeding a match: the Option when Ok
Opt(r) == IF r.ok THEN r.value ELSE None

\* The body of dao_global_state after the length gate: its steps in the
\* order of evaluation, each a Result.
global_steps(state) ==
    LET prospectus_url == read_string_none_if_empty(state, GLOBAL_PROSPECTUS_URL)
        prospectus_hash == read_string_none_if_empty(state, GLOBAL_PROSPECTUS_HASH)
    IN << get_int_or_err(GLOBAL_TOTAL_RECEIVED, state),            \*  1 total_received
          get_int_or_err(GLOBAL_WITHDRAWABLE_AMOUNT, state),       \*  2 available
          get_int_or_err(GLOBAL_FUNDS_ASSET_ID, state),            \*  3 funds_asset_id
          get_int_or_err(GLOBAL_SHARES_ASSET_ID, state),           \*  4 shares_asset_id
          get_string_or_err(GLOBAL_DAO_NAME, state),               \*  5 project_name
          read_string_none_if_empty(state, GLOBAL_DAO_DESC),       \*  6 project_desc_url
          get_int_or_err(GLOBAL_SHARE_PRICE, state),               \*  7 share_price
          IF get_int_or_err(GLOBAL_INVESTORS_SHARE, state).ok      \*  8 investors_share
          THEN shares_percentage_try_from(
                   get_int_or_err(GLOBAL_INVESTORS_SHARE, state).value)
          ELSE get_int_or_err(GLOBAL_INVESTORS_SHARE, state),
          image_nft_of(find_uint(state, GLOBAL_IMAGE_ASSET_ID),    \*  9 image_nft
                       find_bytes(state, GLOBAL_IMAGE_URL)),
          prospectus_url,                                          \* 10
          prospectus_hash,                                         \* 11
          prospectus_of(Opt(prospectus_url), Opt(prospectus_hash)),\* 12 prospectus
          get_string_or_err(GLOBAL_SOCIAL_MEDIA_URL, state),       \* 13 social_media_url
          IF get_bytes_or_err(GLOBAL_VERSIONS, state).ok           \* 14 versions
          THEN bytes_to_versions(get_bytes_or_err(GLOBAL_VERSIONS, state).value)
          ELSE get_bytes_or_err(GLOBAL_VERSIONS, state),
          get_int_or_err(GLOBAL_SHARES_LOCKED, state),             \* 15 shares_locked
          get_int_or_err(GLOBAL_TARGET, state),                    \* 16 min_funds_target
          get_int_or_err(GLOBAL_TARGET_END_DATE, state),           \* 17
          get_int_or_err(GLOBAL_RAISED, state),                    \* 18 raised
          get_int_or_err(GLOBAL_SETUP_DATE, state),                \* 19 setup_date
          get_int_or_err(GLOBAL_MIN_INVEST_AMOUNT, state),         \* 20
          get_int_or_err(GLOBAL_MAX_INVEST_AMOUNT, state),         \* 21
          read_string_none_if_empty(state, GLOBAL_TEAM_URL) >>     \* 22 team_url

CentralAppGlobalState(s, owner) ==
    [ received |-> s[1].value,
      available |-> s[2].value,
      app_approval_version |-> s[14].value.app_approval,
      app_clear_version |-> s[14].value.app_clear,
      funds_asset_id |-> s[3].value,
      shares_asset_id |-> s[4].value,
      project_name |-> s[5].value,
      project_desc_url |-> s[6].value,
      share_price |-> s[7].value,
      investors_share |-> s[8].value,
      image_nft |-> s[9].value,
      social_media_url |-> s[13].value,
      prospectus |-> s[12].value,
      owner |-> owner,
      locked_shares |-> s[15].value,
      min_funds_target |-> s[16].value,
      min_funds_target_end_date |-> s[17].value,
      raised |-> s[18].value,
      setup_date |-> s[19].value,
      min_invest_amount |-> s[20].value,
      max_invest_amount |-> s[21].value,
      team_url |-> s[22].value ]

\* The length gate: print_state(..)? runs before the length error is built.
length_gate_global(state) ==
    IF print_state(state).ok
    THEN Err("SchemaMismatch", len(state))
    ELSE print_state(state)

dao_global_state(state, owner) ==
    IF len(state) # GLOBAL_SCHEMA_NUM_BYTE_SLICES + GLOBAL_SCHEMA_NUM_INTS
    THEN length_gate_global(state)
    ELSE IF AllOk(global_steps(state))
    THEN Ok(CentralAppGlobalState(global_steps(state), owner))
    ELSE FirstErr(global_steps(state))

(***************************************************************************)
(* central_investor_state_from_local_state                                 *)
(* An ApplicationLocalState is [schema |-> [num_byte_slice, num_uint],     *)
(* key_value |-> snapshot].                                                *)
(***************************************************************************)
\* match (&signed_prospectus_url, &signed_prospectus_hash, &signed_prospectus_timestamp)
SignedProspectusLenient(url, hash, timestamp) ==
    IF url.some /\ hash.some /\ timestamp.some
    THEN IF timestamp_from_bytes(timestamp.value).ok
         THEN Ok(Some([hash |-> hash.value,
                       url |-> url.value,
                       timestamp |-> timestamp_from_bytes(timestamp.value).value]))
         ELSE timestamp_from_bytes(timestamp.value)
    ELSE Ok(None)

signed_prospectus_of(url, hash, timestamp) ==
    IF url.some /\ hash.some /\ timestamp.some
    THEN IF timestamp_from_bytes(timestamp.value).ok
         THEN Ok(Some([hash |-> hash.value,
                       url |-> url.value,
                       timestamp |-> timestamp_from_bytes(timestamp.value).value]))
         ELSE timestamp_from_bytes(timestamp.value)
    ELSE IF ~url.some /\ ~hash.some /\ ~timestamp.some
    THEN Ok(None)
    ELSE Err("InconsistentPairing", "signed prospectus")

local_steps(kv) ==
    LET signed_prospectus_url ==
            read_string_none_if_empty(kv, LOCAL_SIGNED_PROSPECTUS_URL)
        signed_prospectus_hash ==
            read_string_none_if_empty(kv, LOCAL_SIGNED_PROSPECTUS_HASH)
        signed_prospectus_timestamp ==
            read_bytes_none_if_empty(kv, LOCAL_SIGNED_PROSPECTUS_TIMESTAMP)
    IN << get_uint_value_or_error(kv, LOCAL_SHARES),               \* 1 shares
          get_uint_value_or_error(kv, LOCAL_CLAIMED_TOTAL),        \* 2 claimed
          get_uint_value_or_error(kv, LOCAL_CLAIMED_INIT),         \* 3 claimed_init
          signed_prospectus_url,                                   \* 4
          signed_prospectus_hash,                                  \* 5
          signed_prospectus_of(Opt(signed_prospectus_url),         \* 6 signed_prospectus
                               Opt(signed_prospectus_hash),
                               signed_prospectus_timestamp) >>

CentralAppInvestorState(s) ==
    [ shares |-> s[1].value,
      claimed |-> s[2].value,
      claimed_init |-> s[3].value,
      signed_prospectus |-> s[6].value ]

\* The length gate: print_state(..).map_err(..)? runs before the length
\* error is built.
length_gate_local(kv) ==
    IF print_state(kv).ok
    THEN Err("SchemaMismatch", len(kv))
    ELSE print_state(kv)

CentralInvestorNoLengthGate(state) ==
    IF AllOk(local_steps(state.key_value))
    THEN Ok(CentralAppInvestorState(local_steps(state.key_value)))
    ELSE FirstErr(local_steps(state.key_value))

central_investor_state_from_local_state(state) ==
    IF len(state.key_value) # LOCAL_SCHEMA_NUM_BYTE_SLICES + LOCAL_SCHEMA_NUM_INTS
    THEN length_gate_local(state.key_value)
    ELSE IF AllOk(local_steps(state.key_value))
    THEN Ok(CentralAppInvestorState(local_steps(state.key_value)))
    ELSE FirstErr(local_steps(state.key_value))

(***************************************************************************)
(* matches_capi_local_state                                                *)
(***************************************************************************)
MatchesIgnoringShares(state) ==
    IF ~( /\ state.schema.num_byte_slice = LOCAL_SCHEMA_NUM_BYTE_SLICES
          /\ state.schema.num_uint = LOCAL_SCHEMA_NUM_INTS
          /\ len(state.key_value) = LOCAL_SCHEMA_NUM_BYTE_SLICES + LOCAL_SCHEMA_NUM_INTS )
    THEN FALSE
    ELSE /\ to_teal_encoded_str(LOCAL_CLAIMED_TOTAL) \in DOMAIN state.key_value
         /\ to_teal_encoded_str(LOCAL_CLAIMED_INIT) \in DOMAIN state.key_value

matches_capi_local_state(state) ==
    IF ~( /\ state.schema.num_byte_slice = LOCAL_SCHEMA_NUM_BYTE_SLICES
          /\ state.schema.num_uint = LOCAL_SCHEMA_NUM_INTS
          /\ len(state.key_value) = LOCAL_SCHEMA_NUM_BYTE_SLICES + LOCAL_SCHEMA_NUM_INTS )
    THEN FALSE
    ELSE /\ to_teal_encoded_str(LOCAL_CLAIMED_TOTAL) \in DOMAIN state.key_value
         /\ to_teal_encoded_str(LOCAL_CLAIMED_INIT) \in DOMAIN state.key_value
         /\ to_teal_encoded_str(LOCAL_SHARES) \in DOMAIN state.key_value

(***************************************************************************)
(* Inputs.  The snapshots given to the decoders are a fully written        *)
(* snapshot in which up to Max*Deviations keys are absent or hold another  *)
(* value, plus entries under keys that are not of the schema.              *)
(* A slot is <<>> (key absent) or <<v>> (key present with TealValue v).    *)
(***************************************************************************)
MaxGlobalDeviations == 2
MaxLocalDeviations == 3
MaxExtra == 2
MaxAssetId == 1
MaxTsLen == 9

BAD_TEXT == <<255>>
OUT_OF_RANGE_PERCENTAGE == SHARES_PERCENTAGE_MAX + 1

ForeignKeys == <<"Unrelated", "Other", "Spare", "Surplus">>

Materialize(slots) ==
    [k \in {x \in DOMAIN slots : slots[x] # <<>>} |-> slots[k][1]]

RECURSIVE DeviationsOf(_, _, _)
DeviationsOf(slots, alt, n) ==
    IF n = 0 THEN {slots}
    ELSE LET prev == DeviationsOf(slots, alt, n - 1)
         IN prev \cup UNION { { [mk[1] EXCEPT ![mk[2]] = a] : a \in alt[mk[2]] } :
                              mk \in prev \X DOMAIN slots }

\* Entries under foreign keys: 0..MaxExtra well-formed ones, or one that the
\* diagnostic formatter cannot render.
ExtraEntries ==
    { [k \in {ForeignKeys[j] : j \in 1..i} |->
          IF k = ForeignKeys[1] THEN TealBytes(<<120>>) ELSE TealUint(7)] :
      i \in 0..MaxExtra }
    \cup { (ForeignKeys[1] :> TealUnknown),
           (NOT_UTF8 :> TealUint(7)),
           (NOT_BASE64 :> TealUint(7)) }

GlobalIntKeys ==
    { GLOBAL_TOTAL_RECEIVED, GLOBAL_WITHDRAWABLE_AMOUNT, GLOBAL_FUNDS_ASSET_ID,
      GLOBAL_SHARES_ASSET_ID, GLOBAL_SHARE_PRICE, GLOBAL_INVESTORS_SHARE,
      GLOBAL_IMAGE_ASSET_ID, GLOBAL_SHARES_LOCKED, GLOBAL_TARGET,
      GLOBAL_TARGET_END_DATE, GLOBAL_RAISED, GLOBAL_SETUP_DATE,
      GLOBAL_MIN_INVEST_AMOUNT, GLOBAL_MAX_INVEST_AMOUNT }

GlobalBytesKeys ==
    { GLOBAL_DAO_NAME, GLOBAL_DAO_DESC, GLOBAL_SOCIAL_MEDIA_URL, GLOBAL_VERSIONS,
      GLOBAL_IMAGE_URL, GLOBAL_PROSPECTUS_URL, GLOBAL_PROSPECTUS_HASH,
      GLOBAL_TEAM_URL }

GlobalKeys == GlobalIntKeys \cup GlobalBytesKeys

\* Keys whose absence the decode reports as a missing field.
GlobalRequiredKeys ==
    (GlobalIntKeys \ {GLOBAL_IMAGE_ASSET_ID})
    \cup {GLOBAL_DAO_NAME, GLOBAL_SOCIAL_MEDIA_URL, GLOBAL_VERSIONS}

\* Byte-string keys behind an optional field or a part of an optional entity.
GlobalOptionalBytesKeys ==
    { GLOBAL_DAO_DESC, GLOBAL_TEAM_URL, GLOBAL_PROSPECTUS_URL,
      GLOBAL_PROSPECTUS_HASH, GLOBAL_IMAGE_URL }

GlobalBase ==
    (GLOBAL_TOTAL_RECEIVED :> TealUint(11)) @@ (GLOBAL_WITHDRAWABLE_AMOUNT :> TealUint(12))
    @@ (GLOBAL_FUNDS_ASSET_ID :> TealUint(13)) @@ (GLOBAL_SHARES_ASSET_ID :> TealUint(14))
    @@ (GLOBAL_SHARE_PRICE :> TealUint(15)) @@ (GLOBAL_INVESTORS_SHARE :> TealUint(40))
    @@ (GLOBAL_IMAGE_ASSET_ID :> TealUint(1)) @@ (GLOBAL_SHARES_LOCKED :> TealUint(17))
    @@ (GLOBAL_TARGET :> TealUint(18)) @@ (GLOBAL_TARGET_END_DATE :> TealUint(19))
    @@ (GLOBAL_RAISED :> TealUint(20)) @@ (GLOBAL_SETUP_DATE :> TealUint(21))
    @@ (GLOBAL_MIN_INVEST_AMOUNT :> TealUint(22)) @@ (GLOBAL_MAX_INVEST_AMOUNT :> TealUint(23))
    @@ (GLOBAL_DAO_NAME :> TealBytes(<<110>>)) @@ (GLOBAL_DAO_DESC :> TealBytes(<<100>>))
    @@ (GLOBAL_SOCIAL_MEDIA_URL :> TealBytes(<<115>>))
    @@ (GLOBAL_VERSIONS :> TealBytes(<<0, 0, 0, 1, 0, 0, 0, 2>>))
    @@ (GLOBAL_IMAGE_URL :> TealBytes(<<105>>)) @@ (GLOBAL_PROSPECTUS_URL :> TealBytes(<<117>>))
    @@ (GLOBAL_PROSPECTUS_HASH :> TealBytes(<<104>>)) @@ (GLOBAL_TEAM_URL :> TealBytes(<<116>>))

GlobalAlt ==
    [k \in GlobalKeys |->
        {<<>>} \cup
        CASE k = GLOBAL_INVESTORS_SHARE -> {<<TealUint(OUT_OF_RANGE_PERCENTAGE)>>}
          [] k = GLOBAL_IMAGE_ASSET_ID -> {<<TealUint(n)>> : n \in 0..MaxAssetId}
          [] k \in {GLOBAL_DAO_NAME, GLOBAL_SOCIAL_MEDIA_URL} -> {<<TealBytes(BAD_TEXT)>>}
          [] k = GLOBAL_VERSIONS -> {<<TealBytes(<<0, 0, 1>>)>>}
          [] k \in GlobalOptionalBytesKeys ->
                {<<TealBytes(<<>>)>>, <<TealBytes(BAD_TEXT)>>}
          [] OTHER -> {}]

GlobalSnapshots ==
    { Materialize(m) @@ e :
        m \in DeviationsOf([k \in GlobalKeys |-> <<GlobalBase[k]>>],
                           GlobalAlt, MaxGlobalDeviations),
        e \in ExtraEntries }

Creators == {"ADDR_A", "ADDR_B"}

\* Local state
LocalKeys ==
    { LOCAL_CLAIMED_TOTAL, LOCAL_CLAIMED_INIT, LOCAL_SHARES,
      LOCAL_SIGNED_PROSPECTUS_URL, LOCAL_SIGNED_PROSPECTUS_HASH,
      LOCAL_SIGNED_PROSPECTUS_TIMESTAMP }

LocalRequiredKeys == {LOCAL_CLAIMED_TOTAL, LOCAL_CLAIMED_INIT, LOCAL_SHARES}

LocalOptionalBytesKeys == LocalKeys \ LocalRequiredKeys

\* 1_700_000_000 = 0x6553F100
TS_1_700_000_000 == <<0, 0, 0, 0, 101, 83, 241, 0>>

\* A byte string of the given width whose first four bytes are 0.
BytesOfWidth(w) == [i \in 1..w |-> IF i <= 4 THEN 0 ELSE i]

LocalBase ==
    (LOCAL_SHARES :> TealUint(31)) @@ (LOCAL_CLAIMED_TOTAL :> TealUint(32))
    @@ (LOCAL_CLAIMED_INIT :> TealUint(33))
    @@ (LOCAL_SIGNED_PROSPECTUS_URL :> TealBytes(<<117>>))
    @@ (LOCAL_SIGNED_PROSPECTUS_HASH :> TealBytes(<<104>>))
    @@ (LOCAL_SIGNED_PROSPECTUS_TIMESTAMP :> TealBytes(TS_1_700_000_000))

LocalAlt ==
    [k \in LocalKeys |->
        {<<>>} \cup
        CASE k = LOCAL_SHARES -> {<<TealBytes(<<120>>)>>}
          [] k = LOCAL_SIGNED_PROSPECTUS_TIMESTAMP ->
                {<<TealBytes(BytesOfWidth(w))>> : w \in 0..MaxTsLen}
          [] k \in LocalOptionalBytesKeys ->
                {<<TealBytes(<<>>)>>, <<TealBytes(BAD_TEXT)>>}
          [] OTHER -> {}]

SchemaCounts(n) == {n - 1, n, n + 1}

\* The declared schema: the one of this app, or one count off it.
LocalSchemas ==
    { sc \in [num_byte_slice : SchemaCounts(LOCAL_SCHEMA_NUM_BYTE_SLICES),
              num_uint : SchemaCounts(LOCAL_SCHEMA_NUM_INTS)] :
        \/ sc.num_byte_slice = LOCAL_SCHEMA_NUM_BYTE_SLICES
        \/ sc.num_uint = LOCAL_SCHEMA_NUM_INTS }

LocalSnapshots ==
    { [schema |-> sc, key_value |-> Materialize(m) @@ e] :
        sc \in LocalSchemas,
        m \in DeviationsOf([k \in LocalKeys |-> <<LocalBase[k]>>],
                           LocalAlt, MaxLocalDeviations),
        e \in ExtraEntries }

\* What the variables hold when the call at hand does not use them.
EmptyState == [k \in {} |-> TealUint(0)]
NoLocalState == [schema |-> [num_byte_slice |-> 0, num_uint |-> 0], key_value |-> EmptyState]
NoRecord == [global |-> None, local |-> None]
NotRun == [ok |-> FALSE, kind |-> "NotRun", what |-> ""]

(***************************************************************************)
(* The calls                                                               *)
(***************************************************************************)
DaoGlobalState ==
    /\ pc = "init"
    /\ pc' = "dao_global_state"
    /\ result' = dao_global_state(gs, creator)
    /\ UNCHANGED <<gs, creator, app_local_state, rec>>

CentralInvestorStateFromLocalState ==
    /\ pc = "init"
    /\ pc' = "central_investor_state_from_local_state"
    /\ result' = central_investor_state_from_local_state(app_local_state)
    /\ UNCHANGED <<gs, creator, app_local_state, rec>>

MatchesCapiLocalState ==
    /\ pc = "init"
    /\ pc' = "matches_capi_local_state"
    /\ result' = matches_capi_local_state(app_local_state)
    /\ UNCHANGED <<gs, creator, app_local_state, rec>>

\* Global decode of one snapshot
Init ==
    /\ gs \in GlobalSnapshots
    /\ creator = "ADDR_A"
    /\ app_local_state = NoLocalState
    /\ rec = NoRecord
    /\ pc = "init"
    /\ result = NotRun

Next == DaoGlobalState

Spec == Init /\ [][Next]_vars

\* Local decode and matcher on one local state
InitLocal ==
    /\ gs = EmptyState
    /\ creator = "ADDR_A"
    /\ app_local_state \in LocalSnapshots
    /\ rec = NoRecord
    /\ pc = "init"
    /\ result = NotRun

NextLocal == CentralInvestorStateFromLocalState \/ MatchesCapiLocalState

SpecLocal == InitLocal /\ [][NextLocal]_vars

\* Any of the three calls, on a global or on a local snapshot
InitAll == Init \/ InitLocal

NextAll == DaoGlobalState \/ CentralInvestorStateFromLocalState \/ MatchesCapiLocalState

SpecAll == InitAll /\ [][NextAll]_vars

(***************************************************************************)
(* Round trip: the snapshot that holds every declared field of a record,   *)
(* written in the form the decoders read (a None as the empty byte string  *)
(* / 0), and the records it is written from.                               *)
(***************************************************************************)
RECURSIVE to_be_bytes(_, _)
to_be_bytes(n, width) ==
    IF width = 0 THEN <<>>
    ELSE Append(to_be_bytes(n \div 256, width - 1), n % 256)

OrEmpty(opt) == IF opt.some THEN opt.value ELSE <<>>

EncodeGlobal(r) ==
    (GLOBAL_TOTAL_RECEIVED :> TealUint(r.received))
    @@ (GLOBAL_WITHDRAWABLE_AMOUNT :> TealUint(r.available))
    @@ (GLOBAL_FUNDS_ASSET_ID :> TealUint(r.funds_asset_id))
    @@ (GLOBAL_SHARES_ASSET_ID :> TealUint(r.shares_asset_id))
    @@ (GLOBAL_SHARE_PRICE :> TealUint(r.share_price))
    @@ (GLOBAL_INVESTORS_SHARE :> TealUint(r.investors_share))
    @@ (GLOBAL_IMAGE_ASSET_ID :>
            TealUint(IF r.image_nft.some THEN r.image_nft.value.asset_id ELSE 0))
    @@ (GLOBAL_SHARES_LOCKED :> TealUint(r.locked_shares))
    @@ (GLOBAL_TARGET :> TealUint(r.min_funds_target))
    @@ (GLOBAL_TARGET_END_DATE :> TealUint(r.min_funds_target_end_date))
    @@ (GLOBAL_RAISED :> TealUint(r.raised))
    @@ (GLOBAL_SETUP_DATE :> TealUint(r.setup_date))
    @@ (GLOBAL_MIN_INVEST_AMOUNT :> TealUint(r.min_invest_amount))
    @@ (GLOBAL_MAX_INVEST_AMOUNT :> TealUint(r.max_invest_amount))
    @@ (GLOBAL_DAO_NAME :> TealBytes(r.project_name))
    @@ (GLOBAL_DAO_DESC :> TealBytes(OrEmpty(r.project_desc_url)))
    @@ (GLOBAL_SOCIAL_MEDIA_URL :> TealBytes(r.social_media_url))
    @@ (GLOBAL_VERSIONS :>
            TealBytes(to_be_bytes(r.app_approval_version, 4)
                      \o to_be_bytes(r.app_clear_version, 4)))
    @@ (GLOBAL_IMAGE_URL :>
            TealBytes(IF r.image_nft.some THEN r.image_nft.value.url ELSE <<>>))
    @@ (GLOBAL_PROSPECTUS_URL :>
            TealBytes(IF r.prospectus.some THEN r.prospectus.value.url ELSE <<>>))
    @@ (GLOBAL_PROSPECTUS_HASH :>
            TealBytes(IF r.prospectus.some THEN r.prospectus.value.hash ELSE <<>>))
    @@ (GLOBAL_TEAM_URL :> TealBytes(OrEmpty(r.team_url)))

EncodeLocal(r) ==
    [schema |-> [num_byte_slice |-> LOCAL_SCHEMA_NUM_BYTE_SLICES,
                 num_uint |-> LOCAL_SCHEMA_NUM_INTS],
     key_value |->
        (LOCAL_SHARES :> TealUint(r.shares))
        @@ (LOCAL_CLAIMED_TOTAL :> TealUint(r.claimed))
        @@ (LOCAL_CLAIMED_INIT :> TealUint(r.claimed_init))
        @@ (LOCAL_SIGNED_PROSPECTUS_URL :>
                TealBytes(IF r.signed_prospectus.some
                          THEN r.signed_prospectus.value.url ELSE <<>>))
        @@ (LOCAL_SIGNED_PROSPECTUS_HASH :>
                TealBytes(IF r.signed_prospectus.some
                          THEN r.signed_prospectus.value.hash ELSE <<>>))
        @@ (LOCAL_SIGNED_PROSPECTUS_TIMESTAMP :>
                TealBytes(IF r.signed_prospectus.some
                          THEN to_be_bytes(r.signed_prospectus.value.timestamp, 8)
                          ELSE <<>>))]

\* Valid records: an optional entity that is Some has every field set.
GlobalRecords ==
    { [ received |-> 11, available |-> 12,
        app_approval_version |-> 1, app_clear_version |-> 2,
        funds_asset_id |-> 13, shares_asset_id |-> 14,
        project_name |-> <<110>>, project_desc_url |-> desc,
        share_price |-> 15, investors_share |-> 40,
        image_nft |-> image, social_media_url |-> <<115>>,
        prospectus |-> prospectus, owner |-> owner,
        locked_shares |-> 17, min_funds_target |-> 18,
        min_funds_target_end_date |-> 19, raised |-> 20, setup_date |-> 21,
        min_invest_amount |-> 22, max_invest_amount |-> 23,
        team_url |-> team ] :
      desc \in {None, Some(<<100>>)},
      image \in {None} \cup {Some([asset_id |-> a, url |-> <<105>>]) : a \in 1..MaxAssetId},
      prospectus \in {None, Some([hash |-> <<104>>, url |-> <<117>>])},
      team \in {None, Some(<<116>>)},
      owner \in Creators }

LocalRecords ==
    { [ shares |-> 31, claimed |-> 32, claimed_init |-> 33,
        signed_prospectus |-> sp ] :
      sp \in {None} \cup
             { Some([hash |-> <<104>>, url |-> <<117>>, timestamp |-> t]) :
               t \in {0, 1, 1700000000} } }

InitRT ==
    /\ \E g \in GlobalRecords, l \in LocalRecords :
          /\ rec = [global |-> Some(g), local |-> Some(l)]
          /\ gs = EncodeGlobal(g)
          /\ creator = g.owner
          /\ app_local_state = EncodeLocal(l)
    /\ pc = "init"
    /\ result = NotRun

NextRT == DaoGlobalState \/ CentralInvestorStateFromLocalState

SpecRT == InitRT /\ [][NextRT]_vars

(***************************************************************************)
(* Properties                                                              *)
(***************************************************************************)
GlobalDone == pc = "dao_global_state"
LocalDone == pc = "central_investor_state_from_local_state"
MatcherDone == pc = "matches_capi_local_state"

GlobalTotal == GLOBAL_SCHEMA_NUM_BYTE_SLICES + GLOBAL_SCHEMA_NUM_INTS
LocalTotal == LOCAL_SCHEMA_NUM_BYTE_SLICES + LOCAL_SCHEMA_NUM_INTS

Failed(r, kind) == ~r.ok /\ r.kind = kind

\* A byte-string key is set when it is present with a non-empty value.
BytesSet(state, k) == k \in DOMAIN state /\ state[k].bytes # <<>>
\* An integer key is set when it is present with a non-zero value.
UintSet(state, k) == k \in DOMAIN state /\ state[k].uint # 0

\* Every step of the global decode other than those in `except` succeeds.
GlobalValidExcept(state, except) ==
    \A i \in DOMAIN global_steps(state) \ except : global_steps(state)[i].ok

\* A key that no input snapshot holds, to keep the entry count when a key
\* is taken out of a snapshot.
REPLACEMENT_KEY == "Replacement"

Without(state, k) ==
    [x \in (DOMAIN state \ {k}) \cup {REPLACEMENT_KEY} |->
        IF x = REPLACEMENT_KEY THEN TealUint(7) ELSE state[x]]

\* Same record, or a failure of the same kind.
SameOutcome(r1, r2) ==
    /\ r1.ok = r2.ok
    /\ r1.ok => r1.value = r2.value
    /\ ~r1.ok => r1.kind = r2.kind

\* C1: a snapshot whose entry count differs from the schema's total (22
\* global, 6 local) makes the decode fail with SchemaMismatch and no other
\* kind of error, also when the diagnostic formatter fails on it.
C1_LengthGateTotality ==
    /\ (GlobalDone /\ len(gs) # GlobalTotal) => Failed(result, "SchemaMismatch")
    /\ (LocalDone /\ len(app_local_state.key_value) # LocalTotal)
           => Failed(result, "SchemaMismatch")

\* C2: in a 22-entry snapshot that is otherwise valid, an image asset id set
\* without an image URL, or an URL without an asset id, fails with
\* InconsistentPairing; both set gives Some(asset id, URL); both at their
\* default, or both absent, gives None.
C2_ImagePairing ==
    (/\ GlobalDone
     /\ len(gs) = GlobalTotal
     /\ GlobalValidExcept(gs, {9})
     /\ GLOBAL_IMAGE_URL \in DOMAIN gs => String_from_utf8(gs[GLOBAL_IMAGE_URL].bytes).ok)
    => /\ (UintSet(gs, GLOBAL_IMAGE_ASSET_ID) # BytesSet(gs, GLOBAL_IMAGE_URL))
              => Failed(result, "InconsistentPairing")
       /\ (UintSet(gs, GLOBAL_IMAGE_ASSET_ID) /\ BytesSet(gs, GLOBAL_IMAGE_URL))
              => /\ result.ok
                 /\ result.value.image_nft =
                        Some([asset_id |-> gs[GLOBAL_IMAGE_ASSET_ID].uint,
                              url |-> gs[GLOBAL_IMAGE_URL].bytes])
       /\ (/\ ~UintSet(gs, GLOBAL_IMAGE_ASSET_ID)
           /\ ~BytesSet(gs, GLOBAL_IMAGE_URL)
           /\ (GLOBAL_IMAGE_ASSET_ID \in DOMAIN gs) = (GLOBAL_IMAGE_URL \in DOMAIN gs))
              => result.ok /\ result.value.image_nft = None
       /\ result.ok /\ result.value.image_nft.some
              => /\ result.value.image_nft.value.asset_id # 0
                 /\ result.value.image_nft.value.url # <<>>

\* C4: in a 22-entry snapshot that is otherwise valid, exactly one of
\* ProspectusUrl / ProspectusHash set fails with InconsistentPairing; both
\* set gives Some with that hash and that URL; both not set (absent or
\* empty, in any mix) gives None.
C4_ProspectusBothOrNeither ==
    (/\ GlobalDone
     /\ len(gs) = GlobalTotal
     /\ GlobalValidExcept(gs, {12}))
    => /\ (BytesSet(gs, GLOBAL_PROSPECTUS_URL) # BytesSet(gs, GLOBAL_PROSPECTUS_HASH))
              => Failed(result, "InconsistentPairing")
       /\ (BytesSet(gs, GLOBAL_PROSPECTUS_URL) /\ BytesSet(gs, GLOBAL_PROSPECTUS_HASH))
              => /\ result.ok
                 /\ result.value.prospectus =
                        Some([hash |-> gs[GLOBAL_PROSPECTUS_HASH].bytes,
                              url |-> gs[GLOBAL_PROSPECTUS_URL].bytes])
       /\ (~BytesSet(gs, GLOBAL_PROSPECTUS_URL) /\ ~BytesSet(gs, GLOBAL_PROSPECTUS_HASH))
              => result.ok /\ result.value.prospectus = None

C4_Witness ==
    /\ GlobalDone
    /\ len(gs) = GlobalTotal
    /\ GlobalValidExcept(gs, {12})
    /\ BytesSet(gs, GLOBAL_PROSPECTUS_URL)
    /\ GLOBAL_PROSPECTUS_HASH \notin DOMAIN gs
    /\ Failed(result, "InconsistentPairing")

\* C5: for a byte-string key K behind an optional field or a part of an
\* optional entity, a snapshot of the right entry count that holds K with
\* an empty value and the snapshot that differs from it only in not holding
\* K decode to the same outcome (the same record, or the same kind of
\* failure).
C5_EmptyStringIsAbsent ==
    /\ GlobalDone /\ len(gs) = GlobalTotal
          => \A k \in GlobalOptionalBytesKeys :
                (k \in DOMAIN gs /\ gs[k].bytes = <<>>)
                   => SameOutcome(result, dao_global_state(Without(gs, k), creator))
    /\ LocalDone /\ len(app_local_state.key_value) = LocalTotal
          => \A k \in LocalOptionalBytesKeys :
                (k \in DOMAIN app_local_state.key_value
                 /\ app_local_state.key_value[k].bytes = <<>>)
                   => SameOutcome(result,
                         central_investor_state_from_local_state(
                            [app_local_state EXCEPT
                                !.key_value = Without(app_local_state.key_value, k)]))

\* The set/not-set state of the three parts of the signed prospectus.
SignedSet(kv) ==
    { k \in LocalOptionalBytesKeys : BytesSet(kv, k) }

LocalGateOpen(state) ==
    /\ len(state.key_value) = LocalTotal
    /\ LocalRequiredKeys \subseteq DOMAIN state.key_value

\* C3 (as stated): in a 6-entry local snapshot with the three integer keys
\* present, the record's signed prospectus is Some exactly when url, hash
\* and timestamp are all set, None exactly when none is set, and every
\* mixed combination fails with InconsistentPairing.
C3_Original ==
    (LocalDone /\ LocalGateOpen(app_local_state))
    => LET set == SignedSet(app_local_state.key_value)
       IN /\ result.ok => /\ result.value.signed_prospectus.some
                               <=> set = LocalOptionalBytesKeys
                          /\ ~result.value.signed_prospectus.some <=> set = {}
          /\ (set # {} /\ set # LocalOptionalBytesKeys)
                => Failed(result, "InconsistentPairing")

\* C3 (amended): as C3, except that a mixed combination whose set url or
\* hash is not valid UTF-8 fails with EncodingError instead; every mixed
\* combination fails, none-set always decodes to None, and all-set decodes
\* to Some of these three values or fails with EncodingError.
C3_SignedProspectusAllOrNone ==
    (LocalDone /\ LocalGateOpen(app_local_state))
    => LET kv == app_local_state.key_value
           set == SignedSet(kv)
           textOk == \A k \in set \ {LOCAL_SIGNED_PROSPECTUS_TIMESTAMP} :
                        String_from_utf8(kv[k].bytes).ok
       IN /\ set = {} => result.ok /\ result.value.signed_prospectus = None
          /\ set = LocalOptionalBytesKeys
                => \/ Failed(result, "EncodingError")
                   \/ /\ result.ok
                      /\ result.value.signed_prospectus.some
                      /\ result.value.signed_prospectus.value.url
                            = kv[LOCAL_SIGNED_PROSPECTUS_URL].bytes
                      /\ result.value.signed_prospectus.value.hash
                            = kv[LOCAL_SIGNED_PROSPECTUS_HASH].bytes
          /\ (set # {} /\ set # LocalOptionalBytesKeys)
                => /\ textOk => Failed(result, "InconsistentPairing")
                   /\ ~textOk => Failed(result, "EncodingError")

C3_Witness ==
    /\ LocalDone /\ LocalGateOpen(app_local_state)
    /\ SignedSet(app_local_state.key_value)
          = {LOCAL_SIGNED_PROSPECTUS_URL, LOCAL_SIGNED_PROSPECTUS_TIMESTAMP}
    /\ Failed(result, "InconsistentPairing")

\* C6: matches_capi_local_state returns a boolean on every input, and true
\* exactly when the declared schema is 3 byte slices and 3 uints, the entry
\* count is 6 and ClaimedTotal, ClaimedInit and Shares are all present,
\* whatever they hold; so from a matching snapshot, renaming one of the three
\* keys, or changing only the declared counts, gives false.
C6_MatcherCharacterization ==
    MatcherDone
    => /\ result \in BOOLEAN
       /\ result <=> /\ app_local_state.schema = [num_byte_slice |-> 3, num_uint |-> 3]
                     /\ Cardinality(DOMAIN app_local_state.key_value) = 6
                     /\ {"ClaimedTotal", "ClaimedInit", "Shares"}
                           \subseteq DOMAIN app_local_state.key_value
       /\ result = TRUE
             => /\ \A k \in {"ClaimedTotal", "ClaimedInit", "Shares"} :
                      ~matches_capi_local_state(
                          [app_local_state EXCEPT
                              !.key_value = Without(app_local_state.key_value, k)])
                /\ \A b \in 0..4, u \in 0..4 :
                      <<b, u>> # <<3, 3>>
                      => ~matches_capi_local_state(
                             [app_local_state EXCEPT
                                 !.schema = [num_byte_slice |-> b, num_uint |-> u]])

C6_Witness ==
    /\ MatcherDone
    /\ result = TRUE
    /\ app_local_state.key_value[LOCAL_SHARES].value_type = 1

\* C7: with the signed prospectus url and hash set, an 8-byte
\* SignedProspectusTimestamp decodes to the big-endian value of its bytes
\* (the encoding of 1_700_000_000 to 1_700_000_000), and a non-empty value
\* of any other width fails with EncodingError.
C7_TimestampDecoding ==
    (/\ LocalDone /\ LocalGateOpen(app_local_state)
     /\ local_steps(app_local_state.key_value)[4].ok
     /\ local_steps(app_local_state.key_value)[5].ok
     /\ \A k \in LocalOptionalBytesKeys : BytesSet(app_local_state.key_value, k))
    => LET ts == app_local_state.key_value[LOCAL_SIGNED_PROSPECTUS_TIMESTAMP].bytes
       IN /\ Len(ts) = 8
                => /\ result.ok
                   /\ result.value.signed_prospectus.some
                   /\ (\A i \in 1..4 : ts[i] = 0)
                         => result.value.signed_prospectus.value.timestamp
                               = ts[5] * 16777216 + ts[6] * 65536 + ts[7] * 256 + ts[8]
                   /\ ts = <<0, 0, 0, 0, 101, 83, 241, 0>>
                         => result.value.signed_prospectus.value.timestamp = 1700000000
          /\ Len(ts) # 8 => Failed(result, "EncodingError")

C7_Witness ==
    /\ LocalDone
    /\ result.ok
    /\ result.value.signed_prospectus.some
    /\ result.value.signed_prospectus.value.timestamp = 1700000000

\* C10: on a local snapshot whose declared schema is 3 byte slices and 3
\* uints, a record from central_investor_state_from_local_state implies
\* that matches_capi_local_state is true of the same snapshot.
C10_DecoderImpliesMatcher ==
    (/\ LocalDone
     /\ app_local_state.schema.num_byte_slice = LOCAL_SCHEMA_NUM_BYTE_SLICES
     /\ app_local_state.schema.num_uint = LOCAL_SCHEMA_NUM_INTS
     /\ result.ok)
    => matches_capi_local_state(app_local_state)

C10_Witness ==
    /\ LocalDone
    /\ app_local_state.schema.num_byte_slice = LOCAL_SCHEMA_NUM_BYTE_SLICES
    /\ app_local_state.schema.num_uint = LOCAL_SCHEMA_NUM_INTS
    /\ result.ok
    /\ matches_capi_local_state(app_local_state)

\* C8: the snapshot written from a valid record, every declared field in
\* it and a None as the empty byte string / 0, decodes to that record, for
\* the global and for the local schema.
C8_RoundTrip ==
    /\ (GlobalDone /\ rec.global.some) => result = Ok(rec.global.value)
    /\ (LocalDone /\ rec.local.some) => result = Ok(rec.local.value)

C8_Witness ==
    /\ GlobalDone
    /\ rec.global.some
    /\ gs = EncodeGlobal(rec.global.value)
    /\ rec.global.value.prospectus.some
    /\ rec.global.value.image_nft.some
    /\ result.ok

\* C9 (as stated): with the right entry count and a required key absent,
\* the decode fails with FieldMissing naming an absent required key, and
\* with no other kind of error.
C9_Original ==
    /\ (GlobalDone /\ len(gs) = GlobalTotal /\ GlobalRequiredKeys \ DOMAIN gs # {})
          => /\ Failed(result, "FieldMissing")
             /\ result.what \in GlobalRequiredKeys \ DOMAIN gs
    /\ (/\ LocalDone
        /\ len(app_local_state.key_value) = LocalTotal
        /\ LocalRequiredKeys \ DOMAIN app_local_state.key_value # {})
          => /\ Failed(result, "FieldMissing")
             /\ result.what \in LocalRequiredKeys \ DOMAIN app_local_state.key_value

\* C9 (amended): with the right entry count and a required key absent, the
\* decode returns no record.  The local decode fails with FieldMissing naming
\* an absent required key; so does the global decode when one of the four
\* keys it reads first is absent, or when no present field fails its own
\* validation; otherwise it fails with FieldMissing, EncodingError or
\* InconsistentPairing, and a FieldMissing names an absent required key.
C9_RequiredFieldMissing ==
    /\ (GlobalDone /\ len(gs) = GlobalTotal /\ GlobalRequiredKeys \ DOMAIN gs # {})
          => /\ ~result.ok
             /\ result.kind \in {"FieldMissing", "EncodingError", "InconsistentPairing"}
             /\ result.kind = "FieldMissing"
                   => result.what \in GlobalRequiredKeys \ DOMAIN gs
             /\ (\A i \in DOMAIN global_steps(gs) :
                    global_steps(gs)[i].ok \/ global_steps(gs)[i].kind = "FieldMissing")
                   => result.kind = "FieldMissing"
             /\ { GLOBAL_TOTAL_RECEIVED, GLOBAL_WITHDRAWABLE_AMOUNT,
                  GLOBAL_FUNDS_ASSET_ID, GLOBAL_SHARES_ASSET_ID } \ DOMAIN gs # {}
                   => result.kind = "FieldMissing"
    /\ (/\ LocalDone
        /\ len(app_local_state.key_value) = LocalTotal
        /\ LocalRequiredKeys \ DOMAIN app_local_state.key_value # {})
          => /\ Failed(result, "FieldMissing")
             /\ result.what \in LocalRequiredKeys \ DOMAIN app_local_state.key_value

C9_Witness ==
    /\ GlobalDone
    /\ len(gs) = GlobalTotal
    /\ GLOBAL_SHARES_LOCKED \notin DOMAIN gs
    /\ result = Err("FieldMissing", GLOBAL_SHARES_LOCKED)

====
